---- MODULE Spec2Model ----
(***************************************************************************)
(* Model of the analysis core of the regols language server:               *)
(*   - the module store of cache.Project (UpdateFile, GetErrors,           *)
(*     DeleteFile, GetModule),                                             *)
(*   - completion (ListCompletionItems and its helpers),                   *)
(*   - go-to-definition (LookupDefinition and its helpers).                *)
(* Strings are sequences of one-character strings, so that HasPrefix,      *)
(* HasSuffix, LastIndex and slicing are computed as the Go code computes   *)
(* them.  A source text is an abstract syntax tree plus its spacing;       *)
(* ParseModule lays it out and yields the AST with the spans the parser    *)
(* attaches to every node.                                                 *)
(***************************************************************************)
EXTENDS Integers, Sequences, FiniteSets, TLC

(***************************************************************************)
(* Bounds of the model.                                                    *)
(***************************************************************************)
\* longest rule body drawn for the query family
MaxBody == 2
\* highest buffer version an edit carries
MaxVersion == 1
\* longest import list drawn for the query family
MaxImports == 2

(***************************************************************************)
(* Strings (Go package strings).                                           *)
(***************************************************************************)
HasPrefix(s, prefix) ==
  /\ Len(prefix) <= Len(s)
  /\ SubSeq(s, 1, Len(prefix)) = prefix

HasSuffix(s, suffix) ==
  /\ Len(suffix) <= Len(s)
  /\ SubSeq(s, Len(s) - Len(suffix) + 1, Len(s)) = suffix

\* first / last 0-based index of the one-character string c in s, -1 if absent
Index(s, c) ==
  IF \E i \in 1..Len(s) : s[i] = c
    THEN (CHOOSE i \in 1..Len(s) : s[i] = c /\ \A j \in 1..(i - 1) : s[j] # c) - 1
    ELSE -1

LastIndex(s, c) ==
  IF \E i \in 1..Len(s) : s[i] = c
    THEN (CHOOSE i \in 1..Len(s) : s[i] = c /\ \A j \in (i + 1)..Len(s) : s[j] # c) - 1
    ELSE -1

Contains(s, c) == \E i \in 1..Len(s) : s[i] = c

\* s[i:] for a 0-based i with 0 <= i <= len(s)
SliceFrom(s, i) == SubSeq(s, i + 1, Len(s))

RECURSIVE Join(_, _)
Join(ss, sep) ==
  IF ss = <<>> THEN <<>>
  ELSE IF Len(ss) = 1 THEN ss[1]
  ELSE ss[1] \o sep \o Join(Tail(ss), sep)

(***************************************************************************)
(* Names used by the bounded families.                                     *)
(***************************************************************************)
nData == <<"d", "a", "t", "a">>
nInput == <<"i", "n", "p", "u", "t">>
nMain == <<"m", "a", "i", "n">>
nLib == <<"l", "i", "b">>
nIb == <<"i", "b">>
nF == <<"f">>
nG == <<"g">>
nMs == <<"m", "s">>
nMsg == <<"m", "s", "g">>
nX == <<"x">>
nEq == <<"e", "q">>
nAssign == <<"a", "s", "s", "i", "g", "n">>
nEqual == <<"e", "q", "u", "a", "l">>

(***************************************************************************)
(* The AST of github.com/open-policy-agent/opa/ast, as far as the code     *)
(* reads it.  Nil is Go's nil pointer.                                     *)
(***************************************************************************)
Nil == [kind |-> "nil"]

\* location.Location: File, Offset and len(Text)
Location(file, offset, length) == [File |-> file, Offset |-> offset, Len |-> length]

\* ast.Term: Value (kind, name, elems) and Location
Term(kind, name, elems, loc) == [kind |-> kind, name |-> name, elems |-> elems, loc |-> loc]

\* ast.Value without the locations, as Term.Equal and Ref.Equal compare it
RECURSIVE Value(_)
Value(t) ==
  [kind |-> t.kind, name |-> t.name,
   elems |-> [i \in 1..Len(t.elems) |-> Value(t.elems[i])]]

\* (*ast.Term).Equal
TermEqual(a, b) == Value(a) = Value(b)

\* a string that ast prints as a dotted segment: an identifier
IsIdent(s) ==
  /\ Len(s) > 0
  /\ \A i \in 1..Len(s) : s[i] \notin {".", " ", "\"", "[", "]"}

\* (ast.Value).String for the kinds a located term can have
RECURSIVE String(_)
String(t) ==
  CASE t.kind = "var" -> t.name
    [] t.kind = "string" -> <<"\"">> \o t.name \o <<"\"">>
    [] t.kind = "ref" ->
         LET seg(i) ==
               IF t.elems[i].kind = "string" /\ IsIdent(t.elems[i].name)
                 THEN <<".">> \o t.elems[i].name
                 ELSE <<"[">> \o String(t.elems[i]) \o <<"]">>
             RECURSIVE segs(_)
             segs(i) == IF i > Len(t.elems) THEN <<>> ELSE seg(i) \o segs(i + 1)
         IN  String(t.elems[1]) \o segs(2)
    [] OTHER -> <<"?">>

(***************************************************************************)
(* Source text.  A text is what the editor sends: a well-formed document   *)
(* (kind "src": package, imports, rules, as written), a document with      *)
(* syntax errors (kind "bad": how many the parser reports), or the empty   *)
(* document (kind "empty"), for which ast.ParseModule returns an *ast.Error*)
(* that is not an ast.Errors.                                              *)
(* A written term has the fields of a term without its location, plus dot: *)
(* TRUE for the name written after a "." in a reference.                   *)
(***************************************************************************)
SVar(n) == [kind |-> "var", name |-> n, elems |-> <<>>, dot |-> FALSE]
SDot(n) == [kind |-> "string", name |-> n, elems |-> <<>>, dot |-> TRUE]
SStr(n) == [kind |-> "string", name |-> n, elems |-> <<>>, dot |-> FALSE]
SNum == [kind |-> "number", name |-> <<"1">>, elems |-> <<>>, dot |-> FALSE]
SObj == [kind |-> "object", name |-> <<>>, elems |-> <<>>, dot |-> FALSE]
SRef(es) == [kind |-> "ref", name |-> <<>>, elems |-> es, dot |-> FALSE]
SArr(es) == [kind |-> "array", name |-> <<>>, elems |-> es, dot |-> FALSE]
SCall(f, args) == [kind |-> "call", name |-> <<>>, elems |-> <<SRef(<<SVar(f)>>)>> \o args, dot |-> FALSE]

\* a written body expression: a single term, an infix operator with two
\* operands (tight: written without spaces around the operator), or a call
STerm(t) == [form |-> "term", op |-> <<>>, terms |-> <<t>>, tight |-> FALSE]
SInfix(op, l, r, tight) == [form |-> "infix", op |-> op, terms |-> <<l, r>>, tight |-> tight]
SCallExpr(f, args) == [form |-> "call", op |-> <<>>, terms |-> <<SRef(<<SVar(f)>>)>> \o args, tight |-> FALSE]

SRule(name, key, args, body) == [name |-> name, key |-> key, args |-> args, body |-> body]
SImport(path, alias) == [path |-> path, alias |-> alias]
SModule(pkg, imports, rules) == [kind |-> "src", pkg |-> pkg, imports |-> imports, rules |-> rules, nerrs |-> 0]
BadText(n) == [kind |-> "bad", pkg |-> <<>>, imports |-> <<>>, rules |-> <<>>, nerrs |-> n]
EmptyText == [kind |-> "empty", pkg |-> <<>>, imports |-> <<>>, rules |-> <<>>, nerrs |-> 0]

(***************************************************************************)
(* ast.ParseModule: the spans of the nodes of a written document.          *)
(***************************************************************************)
RECURSIVE Width(_)
RECURSIVE WidthAll(_, _)
RECURSIVE SegsWidth(_)
\* number of characters of a written term
Width(s) ==
  CASE s.kind = "var" -> Len(s.name)
    [] s.kind = "string" -> IF s.dot THEN Len(s.name) ELSE Len(s.name) + 2
    [] s.kind = "number" -> Len(s.name)
    [] s.kind = "object" -> 2
    [] s.kind = "array" -> 2 + WidthAll(s.elems, 2)
    [] s.kind = "call" -> Width(s.elems[1]) + 2 + WidthAll(Tail(s.elems), 2)
    [] s.kind = "ref" -> Width(s.elems[1]) + SegsWidth(Tail(s.elems))

\* terms written one after the other, sep characters between two of them
WidthAll(ss, sep) ==
  IF ss = <<>> THEN 0
  ELSE IF Len(ss) = 1 THEN Width(ss[1])
  ELSE Width(ss[1]) + sep + WidthAll(Tail(ss), sep)

\* the segments of a reference after its head: ".name" or "[term]"
SegsWidth(ss) ==
  IF ss = <<>> THEN 0
  ELSE (IF ss[1].dot THEN 1 ELSE 2) + Width(ss[1]) + SegsWidth(Tail(ss))

RECURSIVE ParseTerm(_, _, _)
RECURSIVE ParseTerms(_, _, _, _)
RECURSIVE ParseSegs(_, _, _)
\* the term written as s at offset off of file
ParseTerm(s, file, off) ==
  LET loc == Location(file, off, Width(s))
  IN  CASE s.kind = "array" ->
             Term("array", <<>>, ParseTerms(s.elems, file, off + 1, 2), loc)
        [] s.kind = "call" ->
             Term("call", <<>>,
                  <<ParseTerm(s.elems[1], file, off)>>
                    \o ParseTerms(Tail(s.elems), file, off + Width(s.elems[1]) + 1, 2),
                  loc)
        [] s.kind = "ref" ->
             Term("ref", <<>>,
                  <<ParseTerm(s.elems[1], file, off)>>
                    \o ParseSegs(Tail(s.elems), file, off + Width(s.elems[1])),
                  loc)
        [] OTHER -> Term(s.kind, s.name, <<>>, loc)

ParseTerms(ss, file, off, sep) ==
  IF ss = <<>> THEN <<>>
  ELSE <<ParseTerm(ss[1], file, off)>>
         \o ParseTerms(Tail(ss), file, off + Width(ss[1]) + sep, sep)

ParseSegs(ss, file, off) ==
  IF ss = <<>> THEN <<>>
  ELSE <<ParseTerm(ss[1], file, off + 1)>>
         \o ParseSegs(Tail(ss), file, off + (IF ss[1].dot THEN 1 ELSE 2) + Width(ss[1]))

\* the text of an infix operator
OpText(op) == IF op = nEq THEN <<"=">> ELSE IF op = nAssign THEN <<":", "=">> ELSE <<"=", "=">>

ExprWidth(e) ==
  CASE e.form = "term" -> Width(e.terms[1])
    [] e.form = "infix" ->
         Width(e.terms[1]) + Len(OpText(e.op)) + Width(e.terms[2]) + (IF e.tight THEN 0 ELSE 2)
    [] e.form = "call" -> Width(e.terms[1]) + 2 + WidthAll(Tail(e.terms), 2)

\* ast.Expr: Terms is one *ast.Term (single) or a []*ast.Term whose first
\* element is the operator, located at the operator's text
ParseExpr(e, file, off) ==
  LET loc == Location(file, off, ExprWidth(e))
      gap == IF e.tight THEN 0 ELSE 1
  IN  CASE e.form = "term" ->
             [single |-> TRUE, terms |-> <<ParseTerm(e.terms[1], file, off)>>, loc |-> loc]
        [] e.form = "infix" ->
             LET opOff == off + Width(e.terms[1]) + gap
                 opLoc == Location(file, opOff, Len(OpText(e.op)))
             IN  [single |-> FALSE,
                  terms |-> << Term("ref", <<>>, <<Term("var", e.op, <<>>, opLoc)>>, opLoc),
                               ParseTerm(e.terms[1], file, off),
                               ParseTerm(e.terms[2], file, opOff + Len(OpText(e.op)) + gap) >>,
                  loc |-> loc]
        [] e.form = "call" ->
             [single |-> FALSE,
              terms |-> <<ParseTerm(e.terms[1], file, off)>>
                          \o ParseTerms(Tail(e.terms), file, off + Width(e.terms[1]) + 1, 2),
              loc |-> loc]

\* body expressions, each on a line of its own after a tab
RECURSIVE ParseBody(_, _, _)
ParseBody(es, file, off) ==
  IF es = <<>> THEN <<>>
  ELSE <<ParseExpr(es[1], file, off + 2)>>
         \o ParseBody(Tail(es), file, off + 2 + ExprWidth(es[1]))

RECURSIVE BodyWidth(_)
BodyWidth(es) == IF es = <<>> THEN 0 ELSE 2 + ExprWidth(es[1]) + BodyWidth(Tail(es))

\* name, "[key]" or "(args)", " {"
HeadWidth(r) ==
  Len(r.name) + (IF r.key # Nil THEN 2 + Width(r.key) ELSE 0)
    + (IF r.args # <<>> THEN 2 + WidthAll(r.args, 2) ELSE 0) + 2

\* head, body, newline and closing brace
RuleWidth(r) == HeadWidth(r) + BodyWidth(r.body) + 2

\* ast.Rule with its Head (Name, Key, Args), Body and Location
ParseRule(r, file, off) ==
  [name |-> r.name,
   key |-> IF r.key # Nil THEN ParseTerm(r.key, file, off + Len(r.name) + 1) ELSE Nil,
   args |-> ParseTerms(r.args, file,
                       off + Len(r.name) + (IF r.key # Nil THEN 2 + Width(r.key) ELSE 0) + 1, 2),
   body |-> ParseBody(r.body, file, off + HeadWidth(r)),
   loc |-> Location(file, off, RuleWidth(r))]

\* rules separated by an empty line
RECURSIVE ParseRules(_, _, _)
ParseRules(rs, file, off) ==
  IF rs = <<>> THEN <<>>
  ELSE <<ParseRule(rs[1], file, off)>>
         \o ParseRules(Tail(rs), file, off + RuleWidth(rs[1]) + 2)

\* ast.Import: Path (a reference, here its segment names) and Alias ("" if none)
ParseImport(i) == [path |-> i.path, alias |-> i.alias]

\* "import a.b" or "import a.b as c", and a newline
ImportWidth(i) ==
  7 + Len(Join(i.path, <<".">>)) + (IF i.alias # <<>> THEN 4 + Len(i.alias) ELSE 0) + 1

RECURSIVE ImportsWidth(_)
ImportsWidth(is) == IF is = <<>> THEN 0 ELSE ImportWidth(is[1]) + ImportsWidth(Tail(is))

\* "package p", an empty line, the imports, an empty line
PreambleWidth(t) == 8 + Len(Join(t.pkg, <<".">>)) + 2 + ImportsWidth(t.imports) + 1

\* ast.Module; "package p" has the path data.p
ParsedModule(file, t) ==
  [package |-> <<nData>> \o t.pkg,
   imports |-> [i \in 1..Len(t.imports) |-> ParseImport(t.imports[i])],
   rules |-> ParseRules(t.rules, file, PreambleWidth(t))]

\* one ast.Error of an ast.Errors
ParseError(file, n) == [Code |-> "rego_parse_error", File |-> file, N |-> n]

\* ast.ParseModule(path, text): (module, err), err nil, an ast.Errors
\* (syntax) or another error (other)
ParseModule(file, t) ==
  CASE t.kind = "src" -> [module |-> ParsedModule(file, t), err |-> "nil", errs |-> <<>>]
    [] t.kind = "bad" ->
         [module |-> Nil, err |-> "syntax", errs |-> [n \in 1..t.nerrs |-> ParseError(file, n)]]
    [] t.kind = "empty" -> [module |-> Nil, err |-> "other", errs |-> <<>>]

(***************************************************************************)
(* cache.Project (project.go).                                             *)
(***************************************************************************)
VARIABLES
  openFiles,   \* Project.openFiles: path -> File
  modules,     \* Project.modules: path -> *ast.Module
  errs,        \* Project.errs: path -> ast.Errors
  lastParse,   \* path -> outcome of the latest ast.ParseModule of that path
  ret          \* the operation performed last, its arguments and what it returned

vars == <<openFiles, modules, errs, lastParse, ret>>

Paths == {"main.rego", "lib.rego"}

\* cache.File
File(text, version) == [RowText |-> text, Version |-> version]

\* m[k] = v of a Go map
MapPut(m, k, v) == [x \in DOMAIN m \cup {k} |-> IF x = k THEN v ELSE m[x]]

\* delete(m, k) of a Go map
MapDelete(m, k) == [x \in DOMAIN m \ {k} |-> m[x]]

Min(S) == CHOOSE x \in S : \A y \in S : x <= y

RECURSIVE Flatten(_)
\* append(result, list...) over a sequence of lists
Flatten(ss) == IF ss = <<>> THEN <<>> ELSE ss[1] \o Flatten(Tail(ss))

\* Project.GetModule
GetModule(path) == IF path \in DOMAIN modules THEN modules[path] ELSE Nil

\* ast.Compiler.Compile over the project's modules: one error for every rule
\* name that a package defines with two different shapes of head
CompileErrors ==
  LET heads == UNION { { <<modules[p].package, modules[p].rules[i].name,
                           modules[p].rules[i].key # Nil, Len(modules[p].rules[i].args)>> :
                         i \in 1..Len(modules[p].rules) } : p \in DOMAIN modules }
      clash == { <<g[1], g[2]>> : g \in { h \in heads :
                   \E k \in heads : k[1] = h[1] /\ k[2] = h[2] /\ k # h } }
  IN  [n \in 1..Cardinality(clash) |-> [Code |-> "rego_type_error", File |-> "", N |-> n]]

\* Project.GetErrors
GetErrors(path) == IF path \in DOMAIN errs THEN errs[path] ELSE CompileErrors

\* UpdateFile that stores the parser's module before it looks at the error
UpdateFileStoresNil(path, text, version) ==
  LET parsed == ParseModule(path, text)
      call == [op |-> "UpdateFile", path |-> path, text |-> text, version |-> version]
  IN  /\ openFiles' = MapPut(openFiles, path, File(text, version))
      /\ lastParse' = [lastParse EXCEPT ![path] = parsed.err]
      /\ IF parsed.err = "syntax"
           THEN /\ errs' = MapPut(errs, path, parsed.errs)
                /\ modules' = MapPut(modules, path, parsed.module)
                /\ ret' = call @@ [err |-> "nil"]
           ELSE IF parsed.err # "nil"
             THEN /\ UNCHANGED <<modules, errs>>
                  /\ ret' = call @@ [err |-> parsed.err]
             ELSE /\ modules' = MapPut(modules, path, parsed.module)
                  /\ errs' = MapDelete(errs, path)
                  /\ ret' = call @@ [err |-> "nil"]

\* UpdateFile that keeps the error set of a path whose text parses
UpdateFileKeepsErrs(path, text, version) ==
  LET parsed == ParseModule(path, text)
      call == [op |-> "UpdateFile", path |-> path, text |-> text, version |-> version]
  IN  /\ openFiles' = MapPut(openFiles, path, File(text, version))
      /\ lastParse' = [lastParse EXCEPT ![path] = parsed.err]
      /\ IF parsed.err = "syntax"
           THEN /\ errs' = MapPut(errs, path, parsed.errs)
                /\ UNCHANGED modules
                /\ ret' = call @@ [err |-> "nil"]
           ELSE IF parsed.err # "nil"
             THEN /\ UNCHANGED <<modules, errs>>
                  /\ ret' = call @@ [err |-> parsed.err]
             ELSE /\ modules' = MapPut(modules, path, parsed.module)
                  /\ UNCHANGED errs
                  /\ ret' = call @@ [err |-> "nil"]

\* Project.UpdateFile
UpdateFile(path, text, version) ==
  LET parsed == ParseModule(path, text)
      call == [op |-> "UpdateFile", path |-> path, text |-> text, version |-> version]
  IN  /\ openFiles' = MapPut(openFiles, path, File(text, version))
      /\ lastParse' = [lastParse EXCEPT ![path] = parsed.err]
      /\ IF parsed.err = "syntax"
           THEN /\ errs' = MapPut(errs, path, parsed.errs)
                /\ UNCHANGED modules
                /\ ret' = call @@ [err |-> "nil"]
           ELSE IF parsed.err # "nil"
             THEN /\ UNCHANGED <<modules, errs>>
                  /\ ret' = call @@ [err |-> parsed.err]
             ELSE /\ modules' = MapPut(modules, path, parsed.module)
                  /\ errs' = MapDelete(errs, path)
                  /\ ret' = call @@ [err |-> "nil"]

\* DeleteFile that drops the compiled module with the buffer
DeleteFileDropsModule(path) ==
  /\ openFiles' = MapDelete(openFiles, path)
  /\ errs' = MapDelete(errs, path)
  /\ modules' = MapDelete(modules, path)
  /\ ret' = [op |-> "DeleteFile", path |-> path]
  /\ UNCHANGED lastParse

\* Project.DeleteFile
DeleteFile(path) ==
  /\ openFiles' = MapDelete(openFiles, path)
  /\ errs' = MapDelete(errs, path)
  /\ ret' = [op |-> "DeleteFile", path |-> path]
  /\ UNCHANGED <<modules, lastParse>>

\* a call of Project.GetErrors
GetErrorsCall(path) ==
  /\ ret' = [op |-> "GetErrors", path |-> path, value |-> GetErrors(path)]
  /\ UNCHANGED <<openFiles, modules, errs, lastParse>>

(***************************************************************************)
(* Locating the term under the cursor (part_000, second file).             *)
(***************************************************************************)
\* in(target, src)
in(target, src) ==
  /\ target.Offset >= src.Offset
  /\ target.Offset <= src.Offset + src.Len

\* a (*ast.Term, error) pair
Found(term) == [term |-> term, err |-> "nil"]
NotSupported == [term |-> Nil, err |-> "not supported type"]

RECURSIVE searchTargetTermInTerm(_, _)
RECURSIVE searchTargetTermInTerms(_, _)
\* Project.searchTargetTermInTerms
searchTargetTermInTerms(location, terms) ==
  LET hits == { i \in 1..Len(terms) : in(location, terms[i].loc) }
  IN  IF hits = {} THEN Found(Nil)
      ELSE searchTargetTermInTerm(location, terms[Min(hits)])

\* Project.searchTargetTermInTerm
searchTargetTermInTerm(loc, term) ==
  CASE term.kind = "call" -> searchTargetTermInTerms(loc, term.elems)
    [] term.kind = "ref" ->
         IF Len(term.elems) = 1 THEN searchTargetTermInTerm(loc, term.elems[1])
         ELSE IF /\ term.elems[1].kind = "var"
                 /\ term.elems[2].kind = "string"
                 /\ (in(loc, term.elems[1].loc) \/ in(loc, term.elems[2].loc))
           THEN LET value == Term("ref", <<>>, <<term.elems[1], term.elems[2]>>, Nil)
                    l == term.elems[1].loc
                IN  Found([value EXCEPT !.loc = Location(l.File, l.Offset, Len(String(value)))])
           ELSE searchTargetTermInTerms(loc, term.elems)
    [] term.kind = "array" ->
         LET r == [i \in 1..Len(term.elems) |-> searchTargetTermInTerm(loc, term.elems[i])]
             stops == { i \in 1..Len(term.elems) :
                          \/ r[i].err # "nil"
                          \/ (r[i].term # Nil /\ in(loc, r[i].term.loc)) }
         IN  IF stops = {} THEN Found(Nil)
             ELSE IF r[Min(stops)].err # "nil" THEN [term |-> Nil, err |-> r[Min(stops)].err]
             ELSE r[Min(stops)]
    [] term.kind = "var" -> Found(term)
    [] term.kind \in {"string", "boolean", "number"} -> Found(Nil)
    [] OTHER -> NotSupported

\* Project.searchTargetTermInRule
searchTargetTermInRule(location, rule) ==
  LET hits == { i \in 1..Len(rule.body) : in(location, rule.body[i].loc) }
      b == rule.body[Min(hits)]
  IN  IF hits = {} THEN Found(Nil)
      ELSE IF b.single THEN searchTargetTermInTerm(location, b.terms[1])
      ELSE searchTargetTermInTerms(location, b.terms)

\* Project.searchTargetTerm
searchTargetTerm(location) ==
  LET module == GetModule(location.File)
      hits == { i \in 1..Len(module.rules) : in(location, module.rules[i].loc) }
  IN  IF module = Nil THEN Found(Nil)
      ELSE IF hits = {} THEN Found(Nil)
      ELSE searchTargetTermInRule(location, module.rules[Min(hits)])

\* Project.searchRuleForTerm, for a term that is not nil
searchRuleForTerm(term) ==
  LET module == GetModule(term.loc.File)
      hits == { i \in 1..Len(module.rules) : in(term.loc, module.rules[i].loc) }
  IN  IF module = Nil THEN Nil
      ELSE IF hits = {} THEN Nil
      ELSE module.rules[Min(hits)]

(***************************************************************************)
(* Completion (part_000, first file).                                      *)
(***************************************************************************)
CompletionItem(label, kind) == [Label |-> label, Kind |-> kind]

\* (*ast.Import).String
ImportString(imp) ==
  <<"i", "m", "p", "o", "r", "t", " ">> \o Join(imp.path, <<".">>)
    \o (IF imp.alias # <<>> THEN <<" ", "a", "s", " ">> \o imp.alias ELSE <<>>)

\* importToLabel
importToLabel(imp) ==
  IF imp.alias # <<>> THEN imp.alias
  ELSE SliceFrom(ImportString(imp), LastIndex(ImportString(imp), ".") + 1)

\* b.Operator() is the reference to the built-in op: ast.Equality ("eq") or
\* ast.Assign ("assign")
OperatorIs(b, op) == Value(b.terms[1]) = Value(Term("ref", <<>>, <<Term("var", op, <<>>, Nil)>>, Nil))

RECURSIVE listCompletionItemsInTerm(_, _)
\* listCompletionItemsInTerm that does not skip the first segment of a reference
listCompletionItemsInTermAllSegments(target, term) ==
  CASE term.kind = "array" ->
         Flatten([i \in 1..Len(term.elems) |-> listCompletionItemsInTerm(target, term.elems[i])])
    [] term.kind = "ref" ->
         Flatten([i \in 1..Len(term.elems) |-> listCompletionItemsInTerm(target, term.elems[i])])
    [] term.kind = "var" -> <<CompletionItem(String(term), "VariableItem")>>
    [] OTHER -> <<>>

\* Project.listCompletionItemsInTerm
listCompletionItemsInTerm(target, term) ==
  CASE term.kind = "array" ->
         Flatten([i \in 1..Len(term.elems) |-> listCompletionItemsInTerm(target, term.elems[i])])
    [] term.kind = "ref" ->
         Flatten([i \in 1..(Len(term.elems) - 1) |->
                    listCompletionItemsInTerm(target, term.elems[i + 1])])
    [] term.kind = "var" -> <<CompletionItem(String(term), "VariableItem")>>
    [] OTHER -> <<>>

\* listCompletionItemsInRule that stops only after the target's offset
listCompletionItemsInRuleLate(target, rule) ==
  LET key == IF rule.key # Nil
               THEN <<CompletionItem(String(rule.key), "VariableItem")>> ELSE <<>>
      args == [i \in 1..Len(rule.args) |-> CompletionItem(String(rule.args[i]), "VariableItem")]
      stops == { i \in 1..Len(rule.body) : rule.body[i].loc.Offset > target.loc.Offset }
      n == IF stops = {} THEN Len(rule.body) ELSE Min(stops) - 1
      inExpr(b) ==
        IF b.single THEN listCompletionItemsInTerm(target, b.terms[1])
        ELSE IF OperatorIs(b, nEq) \/ OperatorIs(b, nAssign)
          THEN listCompletionItemsInTerm(target, b.terms[2])
        ELSE <<>>
  IN  key \o args \o Flatten([i \in 1..n |-> inExpr(rule.body[i])])

\* Project.listCompletionItemsInRule
listCompletionItemsInRule(target, rule) ==
  LET key == IF rule.key # Nil
               THEN <<CompletionItem(String(rule.key), "VariableItem")>> ELSE <<>>
      args == [i \in 1..Len(rule.args) |-> CompletionItem(String(rule.args[i]), "VariableItem")]
      stops == { i \in 1..Len(rule.body) : rule.body[i].loc.Offset >= target.loc.Offset }
      n == IF stops = {} THEN Len(rule.body) ELSE Min(stops) - 1
      inExpr(b) ==
        IF b.single THEN listCompletionItemsInTerm(target, b.terms[1])
        ELSE IF OperatorIs(b, nEq) \/ OperatorIs(b, nAssign)
          THEN listCompletionItemsInTerm(target, b.terms[2])
        ELSE <<>>
  IN  key \o args \o Flatten([i \in 1..n |-> inExpr(rule.body[i])])

\* Project.listCompletionItemsForTerms, for a target that is not nil
listCompletionItemsForTerms(target) ==
  LET module == GetModule(target.loc.File)
      rule == searchRuleForTerm(target)
  IN  IF module = Nil THEN <<>>
      ELSE [i \in 1..Len(module.imports) |->
              CompletionItem(importToLabel(module.imports[i]), "PackageItem")]
           \o (IF rule # Nil THEN listCompletionItemsInRule(target, rule) ELSE <<>>)
           \o [i \in 1..Len(module.rules) |->
                 CompletionItem(module.rules[i].name, "FunctionItem")]

\* getTermPrefix
getTermPrefix(target) ==
  IF target.kind = "ref" THEN String(target.elems[Len(target.elems)])
  ELSE String(target)

RECURSIVE filterItems(_, _)
filterItems(prefix, list) ==
  IF list = <<>> THEN <<>>
  ELSE (IF HasPrefix(list[1].Label, prefix) THEN <<list[1]>> ELSE <<>>)
         \o filterItems(prefix, Tail(list))

\* filterCompletionItems
filterCompletionItems(target, list) == filterItems(getTermPrefix(target), list)

\* Project.ListCompletionItems: what it returns, or that it panics.  With a
\* nil term, target.Loc().File in listCompletionItemsForTerms dereferences nil.
ListCompletionItems(location) ==
  LET found == searchTargetTerm(location)
      term == found.term
      rule == searchRuleForTerm(term)
  IN  IF found.err # "nil"
        THEN [items |-> <<>>, err |-> found.err, panic |-> FALSE, term |-> Nil, scope |-> <<>>]
      ELSE IF term = Nil
        THEN [items |-> <<>>, err |-> "nil", panic |-> TRUE, term |-> Nil, scope |-> <<>>]
      ELSE [items |-> filterCompletionItems(term, listCompletionItemsForTerms(term)),
            err |-> "nil", panic |-> FALSE, term |-> term,
            scope |-> IF rule # Nil THEN listCompletionItemsInRule(term, rule) ELSE <<>>]

\* a call of Project.ListCompletionItems
ListCompletionItemsCall(location) ==
  /\ ret' = [op |-> "ListCompletionItems", location |-> location]
              @@ ListCompletionItems(location)
  /\ UNCHANGED <<openFiles, modules, errs, lastParse>>

(***************************************************************************)
(* Definition (part_000, second file).                                     *)
(***************************************************************************)
RECURSIVE findDefinitionInTerm(_, _)
RECURSIVE findDefinitionInTerms(_, _)
\* Project.findDefinitionInTerms
findDefinitionInTerms(target, terms) ==
  LET r == [i \in 1..Len(terms) |-> findDefinitionInTerm(target, terms[i])]
      hits == { i \in 1..Len(terms) : r[i] # Nil }
  IN  IF hits = {} THEN Nil ELSE r[Min(hits)]

\* findDefinitionInTerm without the comparison of the offsets
findDefinitionInTermAnyOffset(target, term) ==
  CASE term.kind = "call" -> findDefinitionInTerms(target, term.elems)
    [] term.kind = "ref" -> findDefinitionInTerms(target, Tail(term.elems))
    [] term.kind = "array" -> findDefinitionInTerms(target, term.elems)
    [] term.kind = "var" -> IF TermEqual(target, term) THEN term ELSE Nil
    [] OTHER -> Nil

\* Project.findDefinitionInTerm
findDefinitionInTerm(target, term) ==
  CASE term.kind = "call" -> findDefinitionInTerms(target, term.elems)
    [] term.kind = "ref" -> findDefinitionInTerms(target, Tail(term.elems))
    [] term.kind = "array" -> findDefinitionInTerms(target, term.elems)
    [] term.kind = "var" ->
         IF TermEqual(target, term) /\ target.loc.Offset > term.loc.Offset THEN term ELSE Nil
    [] OTHER -> Nil

\* findDefinitionInRule that keeps walking and returns the last match
findDefinitionInRuleLast(term0, rule) ==
  LET term == IF term0.kind = "ref" /\ Len(term0.elems) > 1 THEN term0.elems[1] ELSE term0
      key == IF rule.key # Nil THEN findDefinitionInTerm(term, rule.key) ELSE Nil
      args == findDefinitionInTerms(term, rule.args)
      inExpr(b) ==
        IF b.single THEN findDefinitionInTerm(term, b.terms[1])
        ELSE IF OperatorIs(b, nEq) \/ OperatorIs(b, nAssign)
          THEN findDefinitionInTerm(term, b.terms[2])
        ELSE Nil
      r == [i \in 1..Len(rule.body) |-> inExpr(rule.body[i])]
      hits == { i \in 1..Len(rule.body) : r[i] # Nil }
  IN  IF hits # {} THEN r[CHOOSE i \in hits : \A j \in hits : j <= i]
      ELSE IF args # Nil THEN args
      ELSE key

\* Project.findDefinitionInRule
findDefinitionInRule(term0, rule) ==
  LET term == IF term0.kind = "ref" /\ Len(term0.elems) > 1 THEN term0.elems[1] ELSE term0
      key == IF rule.key # Nil THEN findDefinitionInTerm(term, rule.key) ELSE Nil
      args == findDefinitionInTerms(term, rule.args)
      inExpr(b) ==
        IF b.single THEN findDefinitionInTerm(term, b.terms[1])
        ELSE IF OperatorIs(b, nEq) \/ OperatorIs(b, nAssign)
          THEN findDefinitionInTerm(term, b.terms[2])
        ELSE Nil
      r == [i \in 1..Len(rule.body) |-> inExpr(rule.body[i])]
      hits == { i \in 1..Len(rule.body) : r[i] # Nil }
  IN  IF key # Nil THEN key
      ELSE IF args # Nil THEN args
      ELSE IF hits = {} THEN Nil
      ELSE r[Min(hits)]

\* findImportOutsidePolicy: the import found (Nil if none), or a panic:
\* without a "." in imp.String(), LastIndex is -1 and the slice is out of range
RECURSIVE findImportOutsidePolicy(_, _)
findImportOutsidePolicy(moduleName, imports) ==
  IF imports = <<>> THEN [imp |-> Nil, panic |-> FALSE]
  ELSE LET imp == imports[1]
           s == ImportString(imp)
       IN  IF imp.alias # <<>> /\ moduleName = imp.alias THEN [imp |-> imp, panic |-> FALSE]
           ELSE IF LastIndex(s, ".") < 0 THEN [imp |-> Nil, panic |-> TRUE]
           ELSE IF HasSuffix(SliceFrom(s, LastIndex(s, ".")), moduleName)
             THEN [imp |-> imp, panic |-> FALSE]
           ELSE findImportOutsidePolicy(moduleName, Tail(imports))

\* Project.findPolicyRef: the package path (Nil if none), or a panic
findPolicyRef(term) ==
  LET module == GetModule(term.loc.File)
      found == findImportOutsidePolicy(String(term.elems[1]), module.imports)
  IN  IF module = Nil THEN [ref |-> Nil, panic |-> FALSE]
      ELSE IF term.kind = "ref" /\ Len(term.elems) > 1
        THEN IF found.panic THEN [ref |-> Nil, panic |-> TRUE]
             ELSE IF found.imp = Nil THEN [ref |-> Nil, panic |-> FALSE]
             ELSE [ref |-> found.imp.path, panic |-> FALSE]
      ELSE [ref |-> module.package, panic |-> FALSE]

\* Project.getModules: every loaded module, in the order the map is ranged over
getModules(order) == [i \in 1..Len(order) |-> modules[order[i]]]

RECURSIVE selectPolicies(_, _)
selectPolicies(ms, packageName) ==
  IF ms = <<>> THEN <<>>
  ELSE (IF ms[1].package = packageName THEN <<ms[1]>> ELSE <<>>)
         \o selectPolicies(Tail(ms), packageName)

\* Project.findPolicies
findPolicies(packageName, order) == selectPolicies(getModules(order), packageName)

RECURSIVE rulesNamed(_, _)
rulesNamed(rules, word) ==
  IF rules = <<>> THEN <<>>
  ELSE (IF rules[1].name = word THEN <<rules[1].loc>> ELSE <<>>)
         \o rulesNamed(Tail(rules), word)

\* Project.findDefinitionInModule
findDefinitionInModule(term, order) ==
  LET searchPackageName == findPolicyRef(term)
      searchPolicies == findPolicies(searchPackageName.ref, order)
      word == IF Contains(String(term), ".")
                THEN SliceFrom(String(term), Index(String(term), ".") + 1)
                ELSE String(term)
  IN  IF searchPackageName.panic THEN [locs |-> <<>>, panic |-> TRUE]
      ELSE [locs |-> Flatten([i \in 1..Len(searchPolicies) |->
                                rulesNamed(searchPolicies[i].rules, word)]),
            panic |-> FALSE]

\* Project.findDefinition
findDefinition(term, order) ==
  LET rule == searchRuleForTerm(term)
      target == findDefinitionInRule(term, rule)
  IN  IF rule # Nil /\ target # Nil THEN [locs |-> <<target.loc>>, panic |-> FALSE]
      ELSE findDefinitionInModule(term, order)

\* Project.LookupDefinition: what it returns, or that it panics
LookupDefinition(location, order) ==
  LET found == searchTargetTerm(location)
  IN  IF found.err # "nil"
        THEN [locs |-> <<>>, err |-> found.err, panic |-> FALSE, term |-> Nil]
      ELSE IF found.term = Nil
        THEN [locs |-> <<>>, err |-> "nil", panic |-> FALSE, term |-> Nil]
      ELSE findDefinition(found.term, order) @@ [err |-> "nil", term |-> found.term]

\* the orders in which a Go map with these keys can be ranged over
Orders(S) == { o \in [1..Cardinality(S) -> S] : \A i, j \in DOMAIN o : i # j => o[i] # o[j] }

\* a call of Project.LookupDefinition
LookupDefinitionCall(location) ==
  /\ \E order \in Orders(DOMAIN modules) :
       ret' = [op |-> "LookupDefinition", location |-> location]
                @@ LookupDefinition(location, order)
  /\ UNCHANGED <<openFiles, modules, errs, lastParse>>

(***************************************************************************)
(* The store: NewProject, then edits, closes and diagnostics.              *)
(***************************************************************************)
\* package main: f[msg] { msg = "x"; ms }
TextMain ==
  SModule(<<nMain>>, <<>>,
          <<SRule(nF, SVar(nMsg), <<>>,
                  <<SInfix(nEq, SVar(nMsg), SStr(nX), FALSE), STerm(SVar(nMs))>>)>>)

\* package main: f(x) { x }, a head that clashes with f[msg]
TextClash == SModule(<<nMain>>, <<>>, <<SRule(nF, Nil, <<SVar(nX)>>, <<STerm(SVar(nX))>>)>>)

\* package lib: g(x) { x }
TextLib == SModule(<<nLib>>, <<>>, <<SRule(nG, Nil, <<SVar(nX)>>, <<STerm(SVar(nX))>>)>>)

GoodTexts == {TextMain, TextClash, TextLib}

\* what an editor can send
Texts == GoodTexts \cup {BadText(1), BadText(2), EmptyText}

\* NewProject: the files under the root all parse, no buffer is open
NewProject(disk) ==
  /\ modules = [p \in DOMAIN disk |-> ParseModule(p, disk[p]).module]
  /\ openFiles = <<>>
  /\ errs = <<>>
  /\ lastParse = [p \in Paths |-> IF p \in DOMAIN disk THEN "nil" ELSE "none"]
  /\ ret = [op |-> "NewProject"]

Init == \E S \in SUBSET Paths : \E disk \in [S -> GoodTexts] : NewProject(disk)

Next ==
  \/ \E path \in Paths, text \in Texts, version \in 1..MaxVersion : UpdateFile(path, text, version)
  \/ \E path \in Paths : DeleteFile(path)
  \/ \E path \in Paths : GetErrorsCall(path)

Spec == Init /\ [][Next]_vars

(***************************************************************************)
(* The queries: completion and definition at a cursor, over projects       *)
(* loaded from bounded families of documents.                              *)
(***************************************************************************)
\* body expressions of the rule under the cursor
ScopeExprs ==
  { STerm(SVar(nMs)),                                            \* ms
    SInfix(nEq, SVar(nMsg), SStr(nX), FALSE),                    \* msg = "x"
    SInfix(nAssign, SVar(nMs), SCall(nG, <<SVar(nX)>>), FALSE),  \* ms := g(x)
    STerm(SRef(<<SVar(nX), SVar(nMsg)>>)),                       \* x[msg]
    SInfix(nEq, SVar(nMs), SRef(<<SVar(nLib), SDot(nF)>>), TRUE), \* ms=lib.f
    STerm(SRef(<<SVar(nX),                                       \* x[[ms, g(msg)]]
                 SArr(<<SVar(nMs), SCall(nG, <<SVar(nMsg)>>)>>)>>)),
    STerm(SStr(nX)),                                             \* "x"
    SInfix(nEq, SVar(nMs), SVar(nMsg), TRUE),                    \* ms=msg
    SInfix(nEq, SArr(<<SVar(nMs), SVar(nX)>>), SObj, FALSE),     \* [ms, x] = {}
    SCallExpr(nG, <<SVar(nMsg)>>) }                              \* g(msg)

ScopeBodies == UNION { [1..k -> ScopeExprs] : k \in 1..MaxBody }

\* heads of the rule under the cursor: f, f[msg], f(ms, x)
ScopeHeads == { <<Nil, <<>>>>, <<SVar(nMsg), <<>>>>, <<Nil, <<SVar(nMs), SVar(nX)>>>> }

\* package main with the rule under the cursor and a second rule g(x) { x }
ScopeTexts ==
  { SModule(<<nMain>>, <<>>,
            <<SRule(nF, h[1], h[2], b), SRule(nG, Nil, <<SVar(nX)>>, <<STerm(SVar(nX))>>)>>) :
    h \in ScopeHeads, b \in ScopeBodies }

\* import data.lib, import data.lib as g, import input
Imports == { SImport(<<nData, nLib>>, <<>>), SImport(<<nData, nLib>>, nG), SImport(<<nInput>>, <<>>) }

ImportLists == UNION { [1..k -> Imports] : k \in 0..MaxImports }

\* the symbol under the cursor: a.b for an alias a, or a plain name
Uses ==
  { STerm(SRef(<<SVar(a), SDot(nF)>>)) : a \in {nLib, nIb, nG} }
    \cup { STerm(SVar(v)) : v \in {nF, nMs} }

\* package main with imports, the rule under the cursor, f(x) and a rule
\* with two arguments that is another f or a g
ResolveTexts ==
  { SModule(<<nMain>>, is,
            <<SRule(nMsg, Nil, <<>>, <<u>>),
              SRule(nF, Nil, <<SVar(nX)>>, <<STerm(SVar(nX))>>),
              SRule(n, Nil, <<SVar(nX), SVar(nMs)>>, <<STerm(SVar(nX))>>)>>) :
    is \in ImportLists, u \in Uses, n \in {nF, nG} }

\* the second file: package lib with rules f, g, f; package lib with rule
\* g; package main with rule f
LibTexts ==
  { SModule(<<pn[1]>>, <<>>,
            [i \in 1..Len(pn[2]) |-> SRule(pn[2][i], Nil, <<SVar(nX)>>, <<STerm(SVar(nX))>>)]) :
    pn \in { <<nLib, <<nF, nG, nF>>>>, <<nLib, <<nG>>>>, <<nMain, <<nF>>>> } }

\* the project is loaded from main.rego alone or from main.rego and lib.rego
QueryInit ==
  \/ \E t \in ScopeTexts : NewProject("main.rego" :> t)
  \/ \E t \in ResolveTexts, l \in LibTexts : NewProject(("main.rego" :> t) @@ ("lib.rego" :> l))

\* cursor positions: from just before to just after the first rule of
\* main.rego, and the start of lib.rego
Cursors ==
  LET r == modules["main.rego"].rules[1].loc
  IN  { Location("main.rego", o, 0) : o \in (r.Offset - 1)..(r.Offset + r.Len + 1) }
        \cup { Location("lib.rego", 0, 0) }

QueryNext ==
  \/ \E location \in Cursors : ListCompletionItemsCall(location)
  \/ \E location \in Cursors : LookupDefinitionCall(location)

SpecQuery == QueryInit /\ [][QueryNext]_vars

(***************************************************************************)
(* Claims about the store, checked under Spec.                             *)
(***************************************************************************)
\* C1: an UpdateFile with syntactically invalid text, on a path that has a
\* compiled module, leaves modules[path] as it was, sets errs[path] to the
\* diagnostics of that text and returns no error; and a GetErrors of the
\* path that follows it returns at least one error.
C1_InvalidEditKeepsModule ==
  [][ /\ ( /\ ret'.op = "UpdateFile"
           /\ ret'.text.kind = "bad"
           /\ ret'.path \in DOMAIN modules )
        => /\ ret'.path \in DOMAIN modules'
           /\ modules'[ret'.path] = modules[ret'.path]
           /\ ret'.path \in DOMAIN errs'
           /\ errs'[ret'.path] = [n \in 1..ret'.text.nerrs |-> ParseError(ret'.path, n)]
           /\ ret'.err = "nil"
      /\ ( /\ ret'.op = "GetErrors"
           /\ ret.op = "UpdateFile"
           /\ ret.text.kind = "bad"
           /\ ret.path = ret'.path
           /\ ret.path \in DOMAIN modules )
        => /\ Len(ret'.value) >= 1
           /\ ret'.value = errs[ret.path] ]_vars

\* C1 witness: GetErrors has answered for a path with a compiled module
\* whose latest text had syntax errors
C1_Witness ==
  /\ ret.op = "GetErrors"
  /\ ret.path \in DOMAIN modules
  /\ ret.path \in DOMAIN openFiles
  /\ openFiles[ret.path].RowText.kind = "bad"
  /\ lastParse[ret.path] = "syntax"
  /\ Len(ret.value) >= 1

\* C2: errs[path] is present only if the latest parse of the path failed,
\* and an UpdateFile whose text parses replaces modules[path] by the module
\* parsed from that text and removes errs[path].
C2_ErrsOnlyAfterFailedParse ==
  /\ \A p \in DOMAIN errs : lastParse[p] \in {"syntax", "other"}
  /\ (ret.op = "UpdateFile" /\ ret.text.kind = "src")
       => /\ ret.path \in DOMAIN modules
          /\ modules[ret.path] = ParsedModule(ret.path, ret.text)
          /\ ret.path \notin DOMAIN errs

\* C2 witness: an edit that parses has been applied to one path while the
\* other path carries the errors of a failed parse
C2_Witness ==
  /\ ret.op = "UpdateFile"
  /\ ret.text.kind = "src"
  /\ ret.path \notin DOMAIN errs
  /\ \E q \in DOMAIN errs : q # ret.path

\* C3: DeleteFile removes the buffer and the error set of its path and
\* leaves the module map unchanged; no step removes a module entry, and an
\* entry changes only by an UpdateFile of that path whose text parses.
C3_DeleteKeepsModules ==
  [][ /\ ret'.op = "DeleteFile"
        => /\ modules' = modules
           /\ ret'.path \notin DOMAIN openFiles'
           /\ ret'.path \notin DOMAIN errs'
           /\ \A q \in Paths \ {ret'.path} :
                /\ (q \in DOMAIN openFiles) = (q \in DOMAIN openFiles')
                /\ (q \in DOMAIN errs) = (q \in DOMAIN errs')
      /\ \A p \in DOMAIN modules :
           /\ p \in DOMAIN modules'
           /\ modules'[p] # modules[p]
                => /\ ret'.op = "UpdateFile"
                   /\ ret'.path = p
                   /\ ret'.text.kind = "src"
                   /\ modules'[p] = ParsedModule(p, ret'.text) ]_vars

\* C3 witness: a buffer whose text failed to parse has been closed and its
\* path still has its compiled module
C3_Witness ==
  /\ ret.op = "DeleteFile"
  /\ ret.path \in DOMAIN modules
  /\ lastParse[ret.path] = "syntax"
  /\ ret.path \notin DOMAIN openFiles
  /\ ret.path \notin DOMAIN errs

(***************************************************************************)
(* Claims about the queries, checked under SpecQuery.                      *)
(***************************************************************************)
\* the names of the variables that occur anywhere in a term
RECURSIVE VarNames(_)
VarNames(t) ==
  IF t.kind = "var" THEN {t.name}
  ELSE UNION { VarNames(t.elems[i]) : i \in 1..Len(t.elems) }

\* the names of the variables of an expression, its operator left out
ExprVarNames(b) ==
  UNION { VarNames(b.terms[i]) : i \in (IF b.single THEN 1 ELSE 2)..Len(b.terms) }

\* the names the head of a rule binds: its key and its arguments
HeadNames(rule) ==
  (IF rule.key # Nil THEN {String(rule.key)} ELSE {})
    \cup { String(rule.args[i]) : i \in 1..Len(rule.args) }

\* the rule that holds the term the last query located
OwningRule == searchRuleForTerm(ret.term)

Labels(items) == { items[i].Label : i \in 1..Len(items) }

\* C4: the scope candidates of a target hold the head key and the head
\* arguments, and besides them only variables of body expressions whose
\* offset is below the target's offset.
C4_ScopeBeforeTarget ==
  (ret.op = "ListCompletionItems" /\ ret.term # Nil /\ OwningRule # Nil)
    => LET rule == OwningRule
           before == { i \in 1..Len(rule.body) :
                         rule.body[i].loc.Offset < ret.term.loc.Offset }
       IN  /\ HeadNames(rule) \subseteq Labels(ret.scope)
           /\ Labels(ret.scope) \subseteq
                HeadNames(rule) \cup UNION { ExprVarNames(rule.body[i]) : i \in before }
           /\ \A i \in 1..Len(ret.scope) : ret.scope[i].Kind = "VariableItem"

\* C4 witness: an earlier expression has contributed a candidate, and an
\* expression at or after the target has a variable that is no candidate
C4_Witness ==
  /\ ret.op = "ListCompletionItems"
  /\ ret.term # Nil
  /\ OwningRule # Nil
  /\ Labels(ret.scope) \ HeadNames(OwningRule) # {}
  /\ \E i \in 1..Len(OwningRule.body) :
       /\ OwningRule.body[i].loc.Offset >= ret.term.loc.Offset
       /\ ExprVarNames(OwningRule.body[i]) \ Labels(ret.scope) # {}

\* the variables at the binding positions of a term: every variable in it
\* but the first segment of a reference
RECURSIVE BindingVars(_)
BindingVars(t) ==
  CASE t.kind = "var" -> {t}
    [] t.kind = "ref" -> UNION { BindingVars(t.elems[i]) : i \in 2..Len(t.elems) }
    [] t.kind \in {"array", "call"} -> UNION { BindingVars(t.elems[i]) : i \in 1..Len(t.elems) }
    [] OTHER -> {}

\* an expression l = r or l := r
IsUnify(b) ==
  /\ ~b.single
  /\ Len(b.terms) = 3
  /\ b.terms[1].kind = "ref"
  /\ Len(b.terms[1].elems) = 1
  /\ b.terms[1].elems[1].name \in {nEq, nAssign}

\* the binding positions of a rule: head key, head arguments, the bare
\* references of the body and the left-hand sides of = and :=
RuleBindings(rule) ==
  (IF rule.key # Nil THEN BindingVars(rule.key) ELSE {})
    \cup UNION { BindingVars(rule.args[i]) : i \in 1..Len(rule.args) }
    \cup UNION { (IF rule.body[i].single THEN BindingVars(rule.body[i].terms[1])
                  ELSE IF IsUnify(rule.body[i]) THEN BindingVars(rule.body[i].terms[2])
                  ELSE {}) : i \in 1..Len(rule.body) }

\* the variable the located term stands for: itself, or the first segment
\* of the compound alias.field
UsedVar == IF ret.term.kind = "ref" THEN ret.term.elems[1] ELSE ret.term

\* the bindings of the used variable's name before the use
BindingsBefore ==
  { d \in RuleBindings(OwningRule) :
      d.name = UsedVar.name /\ d.loc.Offset < UsedVar.loc.Offset }

\* C5 as stated: LookupDefinition at a use U returns a list that includes
\* the location of every binding D of the variable before U, also when the
\* name is bound more than once.
C5_EveryBindingReturned ==
  (ret.op = "LookupDefinition" /\ ret.term # Nil /\ OwningRule # Nil)
    => \A d \in BindingsBefore : \E i \in 1..Len(ret.locs) : ret.locs[i] = d.loc

\* C5 amended: LookupDefinition at a use U returns the one-element list of
\* the earliest binding of the variable before U, so it includes D when D
\* is that earliest binding; later bindings of the name are not returned.
C5_FirstBindingReturned ==
  (ret.op = "LookupDefinition" /\ ret.term # Nil /\ OwningRule # Nil /\ BindingsBefore # {})
    => /\ ~ret.panic
       /\ ret.err = "nil"
       /\ Len(ret.locs) = 1
       /\ \E d \in BindingsBefore :
            /\ ret.locs[1] = d.loc
            /\ \A e \in BindingsBefore : d.loc.Offset <= e.loc.Offset

\* C5 witness: the name is bound twice before the use and the earlier
\* binding is what came back
C5_Witness ==
  /\ ret.op = "LookupDefinition"
  /\ ret.term # Nil
  /\ OwningRule # Nil
  /\ Cardinality(BindingsBefore) >= 2
  /\ Len(ret.locs) = 1
  /\ \E d \in BindingsBefore : ret.locs[1] = d.loc

\* C6: when the owning module has two or more rules of one name, the
\* completion list has exactly one Function candidate of that name (for a
\* name that passes the prefix filter).
C6_OneCandidatePerRuleName ==
  (ret.op = "ListCompletionItems" /\ ret.term # Nil /\ ret.term.kind = "var")
    => LET rules == modules[ret.term.loc.File].rules
       IN  \A k \in 1..Len(rules) :
             ( /\ HasPrefix(rules[k].name, ret.term.name)
               /\ \E j \in 1..Len(rules) : j # k /\ rules[j].name = rules[k].name )
               => Cardinality({ i \in 1..Len(ret.items) :
                                  ret.items[i] = CompletionItem(rules[k].name, "FunctionItem") }) = 1

\* C7: the list ListCompletionItems returns never holds the same Variable
\* candidate twice.
C7_NoDuplicateVariable ==
  ret.op = "ListCompletionItems"
    => \A i, j \in 1..Len(ret.items) :
         (ret.items[i].Kind = "VariableItem" /\ ret.items[i] = ret.items[j]) => i = j

\* C8: with the cursor inside a rule and no term under it,
\* ListCompletionItems returns normally and its result holds the head key
\* and the head arguments of that rule.
C8_NoTermStillCompletes ==
  ( /\ ret.op = "ListCompletionItems"
    /\ ret.location.File \in DOMAIN modules
    /\ \E i \in 1..Len(modules[ret.location.File].rules) :
         in(ret.location, modules[ret.location.File].rules[i].loc)
    /\ searchTargetTerm(ret.location) = Found(Nil) )
    => LET rules == modules[ret.location.File].rules
           k == Min({ i \in 1..Len(rules) : in(ret.location, rules[i].loc) })
       IN  /\ ~ret.panic
           /\ ret.err = "nil"
           /\ HeadNames(rules[k]) \subseteq Labels(ret.items)

\* the package a term resolves to, as the specification states it: the
\* module's own package for a single symbol; for a qualified term the path
\* of the first import whose alias is the first segment or, having no
\* alias, whose last path component is the first segment; else none
ResolveAlias(term, module) ==
  LET seg == term.elems[1].name
      hits == { i \in 1..Len(module.imports) :
                  \/ module.imports[i].alias = seg
                  \/ /\ module.imports[i].alias = <<>>
                     /\ module.imports[i].path[Len(module.imports[i].path)] = seg }
  IN  IF term.kind # "ref" THEN module.package
      ELSE IF hits = {} THEN Nil
      ELSE module.imports[Min(hits)].path

\* the name searched for: the final segment of a qualified term, else its name
SearchName(term) == IF term.kind = "ref" THEN term.elems[Len(term.elems)].name ELSE term.name

\* the locations of the rules of that name in the modules of that package
RulesOf(package, name) ==
  UNION { { modules[p].rules[i].loc :
            i \in { j \in 1..Len(modules[p].rules) : modules[p].rules[j].name = name } } :
          p \in { q \in DOMAIN modules : modules[q].package = package } }

\* C9: without a local binding, LookupDefinition returns exactly the
\* locations of the rules named by the search name in the loaded modules of
\* the resolved package, and the empty list, without error, when the
\* package does not resolve or nothing matches.
C9_ModuleDefinitions ==
  (ret.op = "LookupDefinition" /\ ret.term # Nil /\ OwningRule # Nil /\ BindingsBefore = {})
    => LET want == RulesOf(ResolveAlias(ret.term, modules[ret.term.loc.File]),
                           SearchName(ret.term))
       IN  /\ ~ret.panic
           /\ ret.err = "nil"
           /\ { ret.locs[i] : i \in 1..Len(ret.locs) } = want
           /\ Len(ret.locs) = Cardinality(want)

\* C10: a qualified term resolves to the path of an import only when that
\* import's alias is the term's first segment or, the import having no
\* alias, when the last component of its path is the first segment.
C10_ExactAliasMatch ==
  (ret.op = "LookupDefinition" /\ ret.term # Nil /\ ret.term.kind = "ref")
    => LET found == findPolicyRef(ret.term)
       IN  (~found.panic /\ found.ref # Nil)
             => found.ref = ResolveAlias(ret.term, modules[ret.term.loc.File])

\* the variables a term offers as bindings, in the order they are walked
RECURSIVE WalkTerm(_)
WalkTerm(t) ==
  CASE t.kind = "var" -> <<t>>
    [] t.kind = "ref" -> Flatten([i \in 1..(Len(t.elems) - 1) |-> WalkTerm(t.elems[i + 1])])
    [] t.kind \in {"array", "call"} -> Flatten([i \in 1..Len(t.elems) |-> WalkTerm(t.elems[i])])
    [] OTHER -> <<>>

\* the walk of a rule: head key, head arguments, then the body expressions
\* in source order (a single term, or the left-hand side of = and :=)
WalkRule(rule) ==
  (IF rule.key # Nil THEN WalkTerm(rule.key) ELSE <<>>)
    \o Flatten([i \in 1..Len(rule.args) |-> WalkTerm(rule.args[i])])
    \o Flatten([i \in 1..Len(rule.body) |->
                  IF rule.body[i].single THEN WalkTerm(rule.body[i].terms[1])
                  ELSE IF IsUnify(rule.body[i]) THEN WalkTerm(rule.body[i].terms[2])
                  ELSE <<>>])

\* the positions of the walk that hold the used name before the use
WalkHits ==
  { i \in 1..Len(WalkRule(OwningRule)) :
      /\ WalkRule(OwningRule)[i].name = UsedVar.name
      /\ WalkRule(OwningRule)[i].loc.Offset < UsedVar.loc.Offset }

\* C11: when the binding search of the owning rule finds a binding,
\* LookupDefinition returns exactly one location, that of the first Var of
\* the walk (head key, head arguments, body in source order) with the
\* term's name and an offset strictly below the term's; the location is
\* never at or after the cursor term.
C11_SingleFirstInWalk ==
  ( /\ ret.op = "LookupDefinition"
    /\ ret.term # Nil
    /\ OwningRule # Nil
    /\ findDefinitionInRule(ret.term, OwningRule) # Nil )
    => /\ WalkHits # {}
       /\ ret.locs = <<WalkRule(OwningRule)[Min(WalkHits)].loc>>
       /\ ret.locs[1].Offset < ret.term.loc.Offset

\* C11 witness: a binding was found, and the walk also passes a Var of the
\* same name at or after the term, which is not returned
C11_Witness ==
  /\ ret.op = "LookupDefinition"
  /\ ret.term # Nil
  /\ OwningRule # Nil
  /\ findDefinitionInRule(ret.term, OwningRule) # Nil
  /\ Len(ret.locs) = 1
  /\ \E i \in 1..Len(WalkRule(OwningRule)) :
       /\ WalkRule(OwningRule)[i].name = UsedVar.name
       /\ WalkRule(OwningRule)[i].loc.Offset > UsedVar.loc.Offset

\* the names of the variables that occur anywhere within a term: the first
\* segment of a reference, the arguments of a call and the elements of an
\* array included
RECURSIVE OccurringVars(_)
OccurringVars(t) ==
  CASE t.kind = "var" -> {t.name}
    [] t.kind = "call" -> UNION { OccurringVars(t.elems[i]) : i \in 2..Len(t.elems) }
    [] OTHER -> UNION { OccurringVars(t.elems[i]) : i \in 1..Len(t.elems) }

\* the names of the variables of a term reached through arrays and through
\* the segments of a reference after the first, not through a call
RECURSIVE ListedVars(_)
ListedVars(t) ==
  CASE t.kind = "var" -> {t.name}
    [] t.kind = "array" -> UNION { ListedVars(t.elems[i]) : i \in 1..Len(t.elems) }
    [] t.kind = "ref" -> UNION { ListedVars(t.elems[i]) : i \in 2..Len(t.elems) }
    [] OTHER -> {}

\* the body expressions of the owning rule that start before the located term
Preceding ==
  { i \in 1..Len(OwningRule.body) : OwningRule.body[i].loc.Offset < ret.term.loc.Offset }

\* C12 as stated: for every single-term body expression that precedes the
\* target, the scope candidates hold every Var that occurs anywhere in it,
\* the first segment of a chain and the variables of call arguments and
\* arrays included.
C12_EveryVarAdded ==
  (ret.op = "ListCompletionItems" /\ ret.term # Nil /\ OwningRule # Nil)
    => \A i \in Preceding :
         OwningRule.body[i].single
           => OccurringVars(OwningRule.body[i].terms[1]) \subseteq Labels(ret.scope)

\* C12 amended: for every single-term body expression that precedes the
\* target, the scope candidates hold the Vars of it reached through arrays
\* and through the segments of a chain after the first; the first segment
\* of a chain and the variables inside a call are added by no expression,
\* so the candidates are the head names and these names (for = and :=,
\* those of the left-hand side).
C12_VarsAfterFirstSegment ==
  (ret.op = "ListCompletionItems" /\ ret.term # Nil /\ OwningRule # Nil)
    => /\ \A i \in Preceding :
            OwningRule.body[i].single
              => ListedVars(OwningRule.body[i].terms[1]) \subseteq Labels(ret.scope)
       /\ Labels(ret.scope) =
            HeadNames(OwningRule)
              \cup UNION { (IF OwningRule.body[i].single
                              THEN ListedVars(OwningRule.body[i].terms[1])
                            ELSE IF IsUnify(OwningRule.body[i])
                              THEN ListedVars(OwningRule.body[i].terms[2])
                            ELSE {}) : i \in Preceding }

\* C12 witness: a preceding single-term chain gave the Var of a later
\* segment, reached through an array, while its first segment and the Var
\* inside its call are no candidates
C12_Witness ==
  /\ ret.op = "ListCompletionItems"
  /\ ret.term # Nil
  /\ OwningRule # Nil
  /\ \E i \in Preceding :
       /\ OwningRule.body[i].single
       /\ OwningRule.body[i].terms[1].kind = "ref"
       /\ ListedVars(OwningRule.body[i].terms[1]) # {}
       /\ ListedVars(OwningRule.body[i].terms[1]) \subseteq Labels(ret.scope)
       /\ OccurringVars(OwningRule.body[i].terms[1]) \ Labels(ret.scope)
            = {nX, nMsg}

\* a term and the terms within it
RECURSIVE SubTerms(_)
SubTerms(t) == {t} \cup UNION { SubTerms(t.elems[i]) : i \in 1..Len(t.elems) }

\* the two-segment chains alias.field written in the bodies of a module: a
\* Var followed by a string
Chains(module) ==
  { c \in UNION { UNION { UNION { SubTerms(module.rules[r].body[b].terms[k]) :
                                    k \in 1..Len(module.rules[r].body[b].terms) } :
                          b \in 1..Len(module.rules[r].body) } :
                  r \in 1..Len(module.rules) } :
      /\ c.kind = "ref"
      /\ Len(c.elems) = 2
      /\ c.elems[1].kind = "var"
      /\ c.elems[2].kind = "string" }

\* the cursor lands in one of the two segments of a chain
InSegment(location, c) == in(location, c.elems[1].loc) \/ in(location, c.elems[2].loc)

\* the compound term of a chain: its two segments, from the first segment's
\* offset to the end of the second
Compound(c) ==
  Term("ref", <<>>, c.elems,
       Location(c.elems[1].loc.File, c.elems[1].loc.Offset,
                c.elems[2].loc.Offset + c.elems[2].loc.Len - c.elems[1].loc.Offset))

\* C13: for a two-segment chain of a Var and a string name, the term
\* located is the same compound term, starting at the first segment and
\* spanning both, whether the cursor lands in the first segment or in the
\* second; with the cursor in neither segment no compound term is located.
C13_CompoundOnEitherSegment ==
  (ret.op \in {"ListCompletionItems", "LookupDefinition"} /\ ret.location.File \in DOMAIN modules)
    => LET chains == Chains(modules[ret.location.File])
       IN  /\ \A c \in chains : InSegment(ret.location, c) => ret.term = Compound(c)
           /\ ret.term.kind = "ref"
                => \E c \in chains : InSegment(ret.location, c) /\ ret.term = Compound(c)

====
